---- MODULE Spec2Model ----
(***************************************************************************)
(* AiRA web-aware RAG engine: the submitter (app/main.py), the status      *)
(* store (app/database.py), the work queue (app/queue.py), the ingestion   *)
(* worker (worker.py), the chunker (app/scraper.py), the retrieval index   *)
(* (app/vector_store.py) and the query pipeline (app/llm.py).              *)
(***************************************************************************)
EXTENDS Integers, Sequences, FiniteSets, TLC

\* ---------------------------------------------------------------- bounds
\* number of HTTP requests the front door receives
MaxRequests == 2

\* chunk_text called on its own: words of the text, chunk_size, overlap
MaxWords == 7
MaxChunkSize == 4
MaxOverlap == 5

\* the URLs clients submit (validated, canonical form)
UrlOrder == <<"a", "b">>
Urls == {UrlOrder[k] : k \in DOMAIN UrlOrder}
\* the worker processes of a deployment: a single one (the documented
\* deployment) or two competing for the same queue
Workers == {"w1", "w2"}
\* the texts a fetch can return: version ver of a page is a text of
\* WordCount[ver] words
WordCount == <<300, 800, 0>>
Versions == DOMAIN WordCount
\* the fault a run is exposed to: none, outages of Redis, outages of
\* metadata.db, or worker processes dying (outages of the stores are explored
\* for the documented deployment, the single worker)
Hazards == {"none", "redis", "db", "crash"}
\* Python's None
None == "None"

\* ------------------------------------------------------ program constants
\* WebScraper.chunk_text defaults
CHUNK_SIZE == 500
OVERLAP == 50
\* QueryRequest.top_k default
TOP_K == 5
\* top_k values a query request carries
TopKs == {1, TOP_K}
\* a request that has no response yet
NoResponse == [op |-> "none", code |-> 0]

\* the job variable of a worker that holds no job
NoJob == [url |-> None]

VARIABLES
    urls,       \* table urls of metadata.db: url -> row
    sqlite_seq, \* AUTOINCREMENT counter of table urls
    queue,      \* Redis list url_processing_queue: sequence of job_data
    hazard,     \* the fault this run is exposed to
    redisUp,    \* the Redis server answers
    dbUp,       \* metadata.db can be opened and written
    collection, \* ChromaDB collection: id -> [document, metadata]
    submitted,  \* the urls submitted so far
    rpc,        \* request r: position in its handler
    rurl,       \* ingest_url request r: url
    rjob,       \* ingest_url request r: job_id returned by add_url (0: none;
                \* AUTOINCREMENT ids start at 1)
    rresp,      \* request r: the HTTP response
    deployed,   \* the worker processes that were started
    wpc,        \* worker w: position in main()
    wjob,       \* worker w: job returned by queue.dequeue()
    wchunks,    \* worker w: chunks returned by process_url
    werr,       \* worker w: error_msg of the except branch
    enqLog,     \* history: urls in the order rpush accepted them
    deqLog,     \* history: urls in the order blpop returned them
    chunker     \* a call of WebScraper.chunk_text: arguments and outcome

vars == <<urls, sqlite_seq, queue, hazard, redisUp, dbUp, collection,
          submitted, rpc, rurl, rjob, rresp, deployed, wpc, wjob, wchunks, werr,
          enqLog, deqLog, chunker>>

dbVars == <<urls, sqlite_seq>>
envVars == <<hazard, redisUp, dbUp>>
reqVars == <<submitted, rpc, rurl, rjob, rresp>>
workerVars == <<deployed, wpc, wjob, wchunks, werr>>

Requests == 1..MaxRequests

\* ------------------------------------------------------------ database.py
\* one row of table urls
Row(id, url, status, created_at, updated_at, error_message, chunks_count) ==
    [id |-> id, url |-> url, status |-> status, created_at |-> created_at,
     updated_at |-> updated_at, error_message |-> error_message,
     chunks_count |-> chunks_count]

\* INSERT INTO urls (url, status, created_at, updated_at): error_message is
\* NULL and chunks_count takes its DEFAULT 0
insert_url(tbl, url, id, t) ==
    [u \in DOMAIN tbl \cup {url} |->
        IF u = url THEN Row(id, url, "pending", t, t, None, 0) ELSE tbl[u]]

\* now = datetime.now().isoformat() at a write of url's row. Timestamps are
\* kept up to their order within a row: a write of a row is later than the
\* row's previous write
now(tbl, url) == IF url \in DOMAIN tbl THEN tbl[url].updated_at + 1 ELSE 1

\* an UPDATE that writes error_message and chunks_count only when the caller
\* passed one (a None error, a zero count leave the column as it was)
update_status_sparse(tbl, url, status, error_message, chunks_count, t) ==
    [u \in DOMAIN tbl |->
        IF u = url
        THEN [tbl[u] EXCEPT !.status = status, !.updated_at = t,
                            !.error_message = IF error_message = None THEN @
                                              ELSE error_message,
                            !.chunks_count = IF chunks_count = 0 THEN @
                                             ELSE chunks_count]
        ELSE tbl[u]]

\* UPDATE urls SET status, updated_at, error_message, chunks_count WHERE url
update_status(tbl, url, status, error_message, chunks_count, t) ==
    [u \in DOMAIN tbl |->
        IF u = url
        THEN [tbl[u] EXCEPT !.status = status, !.updated_at = t,
                            !.error_message = error_message,
                            !.chunks_count = chunks_count]
        ELSE tbl[u]]

\* --------------------------------------------------------------- queue.py
\* json.dumps({"url": url}) / json.loads: the job_data object
job_data(url) == [url |-> url]

\* an enqueue whose job is lost
rpush_lost(q, job) == q

\* lpush in place of rpush: the job goes to the head
lpush(q, job) == <<job>> \o q

\* an enqueue that skips a job the list holds already
rpush_dedup(q, job) ==
    IF \E k \in 1..Len(q) : q[k] = job THEN q ELSE Append(q, job)

\* redis rpush: append at the tail
rpush(q, job) == Append(q, job)

\* a dequeue that reads the head and leaves it in the list (lindex, not blpop)
lindex_rest(q) == q

\* redis blpop on a non-empty list: the head, and the list without it
blpop_value(q) == Head(q)
blpop_rest(q) == Tail(q)

\* ------------------------------------------------------------- scraper.py
\* range(start, stop, 1): every index, whatever the step
range_dense(start, stop, step) ==
    [k \in 1..(IF stop > start THEN stop - start ELSE 0) |-> start + k - 1]

\* Python range(start, stop, step) as a sequence: counting up for step > 0,
\* down for step < 0; step = 0 raises ValueError (range_raises)
RECURSIVE range(_, _, _)
range(start, stop, step) ==
    IF step > 0 /\ start < stop THEN <<start>> \o range(start + step, stop, step)
    ELSE IF step < 0 /\ start > stop
    THEN <<start>> \o range(start + step, stop, step)
    ELSE <<>>

range_raises(start, stop, step) == step = 0

Min(a, b) == IF a <= b THEN a ELSE b

\* words[i:i + chunk_size - 1]: a slice one word short
slice_short(n, i, chunk_size) ==
    [lo |-> Min(i, n), hi |-> Min(i + chunk_size - 1, n)]

\* words[i:i + chunk_size] of a text of n words: the word positions lo..hi-1
slice(n, i, chunk_size) == [lo |-> Min(i, n), hi |-> Min(i + chunk_size, n)]

\* chunk_text on a text of n words: the word ranges of the chunks, in order
\* (an empty slice joins to '' and is dropped)
chunk_text(n, chunk_size, overlap) ==
    LET starts == range(0, n, chunk_size - overlap)
        kept == SelectSeq(starts, LAMBDA i : slice(n, i, chunk_size).lo
                                             < slice(n, i, chunk_size).hi)
    IN  [k \in 1..Len(kept) |-> slice(n, kept[k], chunk_size)]

\* chunk_text raises where its range() does
chunk_text_raises(n, chunk_size, overlap) ==
    range_raises(0, n, chunk_size - overlap)

\* process_url: the chunks of the fetched text (version ver, n words) and one
\* metadata per chunk
process_chunks(ver) ==
    LET cs == chunk_text(WordCount[ver], CHUNK_SIZE, OVERLAP)
    IN  [k \in 1..Len(cs) |-> [ver |-> ver, lo |-> cs[k].lo, hi |-> cs[k].hi]]

process_metadatas(url, chunks) ==
    [k \in 1..Len(chunks) |->
        [url |-> url, chunk_index |-> k - 1, total_chunks |-> Len(chunks)]]

\* -------------------------------------------------------- vector_store.py
\* ids = [f"{url}_{i}" for i in range(len(chunks))]
chunk_ids(url, chunks) == [k \in 1..Len(chunks) |-> <<url, k - 1>>]

\* collection.add of a batch whose ids may exist already: ChromaDB's add
\* keeps the stored entry of an existing id and inserts the new ids only
collection_add(coll, ids, documents, metadatas) ==
    LET new == {ids[k] : k \in 1..Len(ids)}
        pos(id) == CHOOSE k \in 1..Len(ids) : ids[k] = id
    IN  [id \in DOMAIN coll \cup new |->
            IF id \in DOMAIN coll THEN coll[id]
            ELSE [content |-> documents[pos(id)], metadata |-> metadatas[pos(id)]]]

\* the installed ChromaDB decides what add does with an empty batch (raise,
\* or store nothing) and with an id that is stored already (raise, or skip
\* the id): whether add_documents can raise, and whether it can return
add_can_raise(coll, ids) ==
    Len(ids) = 0 \/ \E k \in 1..Len(ids) : ids[k] \in DOMAIN coll

\* ---------------------------------------------------------------- main.py
\* the urls a client can submit next: one submitted before, or the first
\* url of UrlOrder not submitted yet (urls are interchangeable, so the order in
\* which new ones appear is fixed)
Submittable ==
    submitted \cup {UrlOrder[k] : k \in {Cardinality(submitted) + 1}
                                      \cap DOMAIN UrlOrder}

\* request r reaches the front door (requests are numbered as they arrive)
Arrives(r) == rpc[r] = "new" /\ (r > 1 => rpc[r - 1] # "new")

\* an availability check that never reports the outage
is_connected_always(up) == TRUE

\* RedisQueue.is_connected: ping answered, any error swallowed into False
is_connected(up) == up

\* MetadataDB.add_url: the table after the INSERT (a UNIQUE violation leaves
\* it as it was) and the id returned (lastrowid, or the SELECTed id)
\* INSERT OR REPLACE in place of INSERT
add_url_table_replace(tbl, url, seq) ==
    insert_url(tbl, url, seq + 1, now(tbl, url))

add_url_table(tbl, url, seq) ==
    IF url \in DOMAIN tbl THEN tbl ELSE insert_url(tbl, url, seq + 1, now(tbl, url))

\* add_url returning cursor.lastrowid on the conflict path too
add_url_id_lastrowid(tbl, url, seq) == seq + 1

add_url_id(tbl, url, seq) ==
    IF url \in DOMAIN tbl THEN tbl[url].id ELSE seq + 1

\* POST /ingest-url, request r for url u: the handler starts and pings Redis;
\* 503 when the ping fails
IngestCheck(r, u) ==
    /\ Arrives(r)
    /\ u \in Submittable
    /\ submitted' = submitted \cup {u}
    /\ IF is_connected(redisUp)
       THEN /\ rpc' = [rpc EXCEPT ![r] = "add_url"]
            /\ rurl' = [rurl EXCEPT ![r] = u]
            /\ UNCHANGED rresp
       ELSE /\ rpc' = [rpc EXCEPT ![r] = "done"]
            /\ rresp' = [rresp EXCEPT ![r] =
                            [op |-> "ingest_url", code |-> 503, url |-> u]]
            /\ UNCHANGED rurl
    /\ UNCHANGED <<dbVars, queue, envVars, collection, rjob, workerVars,
                   enqLog, deqLog>>
    /\ UNCHANGED chunker

\* job_id = db.add_url(url); a database error is answered with 500
IngestAddUrl(r) ==
    /\ rpc[r] = "add_url"
    /\ IF dbUp
       THEN /\ urls' = add_url_table(urls, rurl[r], sqlite_seq)
            /\ sqlite_seq' = IF rurl[r] \in DOMAIN urls THEN sqlite_seq
                             ELSE sqlite_seq + 1
            /\ rjob' = [rjob EXCEPT ![r] = add_url_id(urls, rurl[r], sqlite_seq)]
            /\ rpc' = [rpc EXCEPT ![r] = "enqueue"]
            /\ UNCHANGED <<rresp, rurl>>
       ELSE /\ rpc' = [rpc EXCEPT ![r] = "done"]
            /\ rresp' = [rresp EXCEPT ![r] =
                            [op |-> "ingest_url", code |-> 500, url |-> rurl[r]]]
            /\ rurl' = [rurl EXCEPT ![r] = None]
            /\ UNCHANGED <<dbVars, rjob>>
    /\ UNCHANGED <<queue, envVars, collection, submitted, workerVars, enqLog,
                   deqLog>>
    /\ UNCHANGED chunker

\* queue.enqueue(url) and the 202 response; a Redis error is answered with
\* 500. The handler's locals end with it
IngestEnqueue(r) ==
    /\ rpc[r] = "enqueue"
    /\ rpc' = [rpc EXCEPT ![r] = "done"]
    /\ rurl' = [rurl EXCEPT ![r] = None]
    /\ rjob' = [rjob EXCEPT ![r] = 0]
    /\ IF redisUp
       THEN /\ queue' = rpush(queue, job_data(rurl[r]))
            /\ enqLog' = Append(enqLog, rurl[r])
            /\ rresp' = [rresp EXCEPT ![r] =
                            [op |-> "ingest_url", code |-> 202, url |-> rurl[r],
                             status |-> "pending", job_id |-> rjob[r]]]
       ELSE /\ rresp' = [rresp EXCEPT ![r] =
                            [op |-> "ingest_url", code |-> 500, url |-> rurl[r]]]
            /\ UNCHANGED <<queue, enqLog>>
    /\ UNCHANGED <<dbVars, envVars, collection, submitted, workerVars, deqLog>>
    /\ UNCHANGED chunker

ingest_url == \/ \E r \in Requests, u \in Urls : IngestCheck(r, u)
              \/ \E r \in Requests : IngestAddUrl(r)
              \/ \E r \in Requests : IngestEnqueue(r)

\* -------------------------------------------------------------- worker.py
\* error_msg = str(e) of the exceptions the per-job try block can raise
FETCH_ERROR == "Failed to fetch content"
DB_ERROR == "unable to open database file"
ADD_ERROR == "collection.add failed"

\* job = queue.dequeue(): a Redis error reaches the outer except (back off 5 s),
\* a timeout returns None (after time.sleep(1) the loop is here again), else
\* the head job leaves the queue
WorkerDequeue(w) ==
    /\ wpc[w] = "dequeue"
    /\ IF ~redisUp
       THEN /\ wpc' = [wpc EXCEPT ![w] = "backoff"]
            /\ UNCHANGED <<queue, wjob, deqLog>>
       ELSE IF queue = <<>>
       THEN UNCHANGED <<wpc, queue, wjob, deqLog>>
       ELSE /\ wjob' = [wjob EXCEPT ![w] = blpop_value(queue)]
            /\ queue' = blpop_rest(queue)
            /\ deqLog' = Append(deqLog, blpop_value(queue).url)
            /\ wpc' = [wpc EXCEPT ![w] = "processing"]
    /\ UNCHANGED <<dbVars, envVars, collection, reqVars, deployed, wchunks,
                   werr, enqLog>>
    /\ UNCHANGED chunker

\* an outer except that ends the loop
WorkerBackoffExit(w) ==
    /\ wpc[w] = "backoff"
    /\ wpc' = [wpc EXCEPT ![w] = "crashed"]
    /\ UNCHANGED <<dbVars, queue, envVars, collection, reqVars, deployed, wjob,
                   wchunks, werr, enqLog, deqLog, chunker>>

\* except Exception: time.sleep(5), and the loop goes on
WorkerBackoff(w) ==
    /\ wpc[w] = "backoff"
    /\ wpc' = [wpc EXCEPT ![w] = "dequeue"]
    /\ UNCHANGED <<dbVars, queue, envVars, collection, reqVars, deployed, wjob,
                   wchunks, werr, enqLog, deqLog>>
    /\ UNCHANGED chunker

\* a worker that goes on to process_url without writing processing
WorkerProcessingSkip(w) ==
    /\ wpc[w] = "processing"
    /\ wpc' = [wpc EXCEPT ![w] = "process_url"]
    /\ UNCHANGED <<dbVars, queue, envVars, collection, reqVars, deployed,
                   wjob, wchunks, werr, enqLog, deqLog, chunker>>

\* db.update_status(url, "processing")
WorkerProcessing(w) ==
    /\ wpc[w] = "processing"
    /\ IF dbUp
       THEN /\ urls' = update_status(urls, wjob[w].url, "processing", None, 0,
                                     now(urls, wjob[w].url))
            /\ wpc' = [wpc EXCEPT ![w] = "process_url"]
            /\ UNCHANGED werr
       ELSE /\ werr' = [werr EXCEPT ![w] = DB_ERROR]
            /\ wpc' = [wpc EXCEPT ![w] = "failed"]
            /\ UNCHANGED urls
    /\ UNCHANGED <<sqlite_seq, queue, envVars, collection, reqVars, deployed,
                   wjob, wchunks, enqLog, deqLog>>
    /\ UNCHANGED chunker

\* chunks, metadatas = scraper.process_url(url), where the fetch fails or the
\* page holds version ver of its text; then vector_store.add_documents(chunks,
\* metadatas, url). Fetching and chunking touch nothing shared, so the two
\* calls are one step
WorkerProcessUrl(w) ==
    /\ wpc[w] = "process_url"
    /\ \/ /\ werr' = [werr EXCEPT ![w] = FETCH_ERROR]
          /\ wpc' = [wpc EXCEPT ![w] = "failed"]
          /\ UNCHANGED <<wchunks, collection>>
       \/ \E ver \in Versions :
          LET url == wjob[w].url
              chunks == process_chunks(ver)
              ids == chunk_ids(url, chunks)
          IN  \/ /\ add_can_raise(collection, ids)
                 /\ werr' = [werr EXCEPT ![w] = ADD_ERROR]
                 /\ wpc' = [wpc EXCEPT ![w] = "failed"]
                 /\ UNCHANGED <<wchunks, collection>>
              \/ /\ collection' = collection_add(collection, ids, chunks,
                                        process_metadatas(url, chunks))
                 /\ wchunks' = [wchunks EXCEPT ![w] = chunks]
                 /\ wpc' = [wpc EXCEPT ![w] = "completed"]
                 /\ UNCHANGED werr
    /\ UNCHANGED <<dbVars, queue, envVars, reqVars, deployed, wjob, enqLog,
                   deqLog>>
    /\ UNCHANGED chunker

\* db.update_status(url, "completed", chunks_count=len(chunks)); the locals
\* of a finished job are dead and are cleared
WorkerCompleted(w) ==
    /\ wpc[w] = "completed"
    /\ wchunks' = [wchunks EXCEPT ![w] = << >>]
    /\ IF dbUp
       THEN /\ urls' = update_status(urls, wjob[w].url, "completed", None,
                                     Len(wchunks[w]), now(urls, wjob[w].url))
            /\ wpc' = [wpc EXCEPT ![w] = "dequeue"]
            /\ wjob' = [wjob EXCEPT ![w] = NoJob]
            /\ UNCHANGED werr
       ELSE /\ werr' = [werr EXCEPT ![w] = DB_ERROR]
            /\ wpc' = [wpc EXCEPT ![w] = "failed"]
            /\ UNCHANGED <<urls, wjob>>
    /\ UNCHANGED <<sqlite_seq, queue, envVars, collection, reqVars, deployed,
                   enqLog, deqLog>>
    /\ UNCHANGED chunker

\* except Exception as e: db.update_status(url, "failed", error_message=str(e));
\* when this write raises too, the outer except backs off
WorkerFailed(w) ==
    /\ wpc[w] = "failed"
    /\ wjob' = [wjob EXCEPT ![w] = NoJob]
    /\ wchunks' = [wchunks EXCEPT ![w] = << >>]
    /\ werr' = [werr EXCEPT ![w] = None]
    /\ IF dbUp
       THEN /\ urls' = update_status(urls, wjob[w].url, "failed", werr[w], 0,
                                     now(urls, wjob[w].url))
            /\ wpc' = [wpc EXCEPT ![w] = "dequeue"]
       ELSE /\ wpc' = [wpc EXCEPT ![w] = "backoff"]
            /\ UNCHANGED urls
    /\ UNCHANGED <<sqlite_seq, queue, envVars, collection, reqVars, deployed,
                   enqLog, deqLog>>
    /\ UNCHANGED chunker

\* a worker that puts the job it holds back into the queue as it dies
WorkerCrashRequeue(w) ==
    /\ hazard = "crash"
    /\ wpc[w] \notin {"off", "crashed"}
    /\ wpc' = [wpc EXCEPT ![w] = "crashed"]
    /\ wjob' = [wjob EXCEPT ![w] = NoJob]
    /\ wchunks' = [wchunks EXCEPT ![w] = << >>]
    /\ werr' = [werr EXCEPT ![w] = None]
    /\ queue' = IF wjob[w] = NoJob THEN queue ELSE rpush(queue, wjob[w])
    /\ UNCHANGED <<dbVars, envVars, collection, reqVars, deployed,
                   enqLog, deqLog, chunker>>

\* the worker process dies (killed, or KeyboardInterrupt breaks the loop)
WorkerCrash(w) ==
    /\ hazard = "crash"
    /\ wpc[w] \notin {"off", "crashed"}
    /\ wpc' = [wpc EXCEPT ![w] = "crashed"]
    /\ wjob' = [wjob EXCEPT ![w] = NoJob]
    /\ wchunks' = [wchunks EXCEPT ![w] = << >>]
    /\ werr' = [werr EXCEPT ![w] = None]
    /\ UNCHANGED <<dbVars, queue, envVars, collection, reqVars, deployed,
                   enqLog, deqLog>>
    /\ UNCHANGED chunker

\* one step of the loop of main()
main(w) == \/ WorkerDequeue(w)
           \/ WorkerBackoff(w)
           \/ WorkerProcessing(w)
           \/ WorkerProcessUrl(w)
           \/ WorkerCompleted(w)
           \/ WorkerFailed(w)

\* ------------------------------------------------- main.py: the read side
\* VectorStore.search: the top_k nearest entries of the collection (all of
\* them when it holds fewer); which ones are nearest is the index's choice
search_results(coll, top_k) ==
    {hits \in SUBSET DOMAIN coll :
        Cardinality(hits) = Min(top_k, Cardinality(DOMAIN coll))}

\* list(set(...)): the lists that hold every element of S once; the order is
\* the set's iteration order, which is not fixed
list_set(S) ==
    {s \in [1..Cardinality(S) -> S] : \A x \in S : \E k \in DOMAIN s : s[k] = x}

\* the urls of the chunks without set(): one entry for every chunk
sources_per_chunk(coll, hits) ==
    {[k \in DOMAIN order |-> coll[order[k]].metadata.url] :
        order \in list_set(hits)}

\* generate_answer_with_sources: sources = list(set(urls of the chunks))
sources_of(coll, hits) == list_set({coll[id].metadata.url : id \in hits})

\* generate_answer: the completion's text, or the error string of the except
\* branch; a completion without text content gives None
GENERATION_ERROR == "Error generating answer"
generate_answer(outcome) ==
    CASE outcome = "text" -> "answer"
      [] outcome = "raised" -> GENERATION_ERROR
      [] outcome = "no_content" -> None

\* a read-side handler answers request r in one step and writes nothing
Answer(r, response) ==
    /\ Arrives(r)
    /\ rpc' = [rpc EXCEPT ![r] = "done"]
    /\ rresp' = [rresp EXCEPT ![r] = response]
    /\ UNCHANGED <<dbVars, queue, envVars, collection, submitted, rurl, rjob,
                   workerVars, enqLog, deqLog>>
    /\ UNCHANGED chunker

\* POST /query: 404 on an empty retrieval; QueryResponse(answer: str) rejects
\* None, which the handler turns into 500
query(r) ==
    \E top_k \in TopKs : \E hits \in search_results(collection, top_k) :
    \E outcome \in {"text", "raised", "no_content"} :
    \E sources \in sources_of(collection, hits) :
        Answer(r, IF hits = {}
                  THEN [op |-> "query", code |-> 404]
                  ELSE IF generate_answer(outcome) = None
                  THEN [op |-> "query", code |-> 500]
                  ELSE [op |-> "query", code |-> 200,
                        answer |-> generate_answer(outcome),
                        sources |-> sources,
                        num_sources |-> Len(sources)])

\* GET /status/{url}: the row, or 404; a database error is unhandled (500)
get_url_status(r) ==
    \E u \in Urls :
        Answer(r, IF ~dbUp THEN [op |-> "get_url_status", code |-> 500]
                  ELSE IF u \in DOMAIN urls
                  THEN [op |-> "get_url_status", code |-> 200, body |-> urls[u]]
                  ELSE [op |-> "get_url_status", code |-> 404])

\* GET /status: total_urls and the rows (as a set: the ORDER BY is not modelled)
get_all_status(r) ==
    Answer(r, IF ~dbUp THEN [op |-> "get_all_status", code |-> 500]
              ELSE [op |-> "get_all_status", code |-> 200,
                    total_urls |-> Cardinality(DOMAIN urls),
                    urls |-> {urls[u] : u \in DOMAIN urls}])

\* GET /queue-info: llen raises when Redis is down (unhandled, 500)
queue_info(r) ==
    Answer(r, IF ~redisUp THEN [op |-> "queue_info", code |-> 500]
              ELSE [op |-> "queue_info", code |-> 200,
                    queue_length |-> Len(queue),
                    redis_connected |-> is_connected(redisUp)])

\* GET /: health check
root(r) ==
    Answer(r, [op |-> "root", code |-> 200,
               redis_connected |-> is_connected(redisUp),
               total_documents |-> Cardinality(DOMAIN collection)])

\* ------------------------------------------------------------ environment
\* the Redis server becomes unreachable
RedisDown ==
    /\ hazard = "redis"
    /\ redisUp
    /\ redisUp' = FALSE
    /\ UNCHANGED <<dbVars, queue, hazard, dbUp, collection, reqVars,
                   workerVars, enqLog, deqLog>>
    /\ UNCHANGED chunker

\* the Redis server is back, with the list it held
RedisUp ==
    /\ ~redisUp
    /\ redisUp' = TRUE
    /\ UNCHANGED <<dbVars, queue, hazard, dbUp, collection, reqVars,
                   workerVars, enqLog, deqLog>>
    /\ UNCHANGED chunker

\* metadata.db becomes unusable (locked, disk full, unreadable)
DbDown ==
    /\ hazard = "db"
    /\ dbUp
    /\ dbUp' = FALSE
    /\ UNCHANGED <<dbVars, queue, hazard, redisUp, collection, reqVars,
                   workerVars, enqLog, deqLog>>
    /\ UNCHANGED chunker

\* metadata.db is usable again
DbUp ==
    /\ ~dbUp
    /\ dbUp' = TRUE
    /\ UNCHANGED <<dbVars, queue, hazard, redisUp, collection, reqVars,
                   workerVars, enqLog, deqLog>>
    /\ UNCHANGED chunker

\* ---------------------------------------------------------- specification
\* chunk_text is not being called on its own
NoCall == [text |-> 0, chunk_size |-> CHUNK_SIZE, overlap |-> OVERLAP,
           called |-> FALSE, raised |-> FALSE, chunks |-> << >>]

\* both processes freshly started on empty stores
Started ==
    /\ urls = << >>
    /\ sqlite_seq = 0
    /\ queue = << >>
    /\ redisUp = TRUE
    /\ dbUp = TRUE
    /\ collection = << >>
    /\ submitted = {}
    /\ rpc = [r \in Requests |-> "new"]
    /\ rurl = [r \in Requests |-> None]
    /\ rjob = [r \in Requests |-> 0]
    /\ rresp = [r \in Requests |-> NoResponse]
    /\ deployed \in {{"w1"}, Workers}
    /\ hazard \in IF deployed = Workers THEN Hazards \ {"redis", "db"}
                   ELSE Hazards
    /\ wpc = [w \in Workers |-> IF w \in deployed THEN "dequeue" ELSE "off"]
    /\ wjob = [w \in Workers |-> NoJob]
    /\ wchunks = [w \in Workers |-> << >>]
    /\ werr = [w \in Workers |-> None]
    /\ enqLog = << >>
    /\ deqLog = << >>

Init == Started /\ chunker = NoCall

Next ==
    \/ ingest_url
    \/ \E r \in Requests : query(r)
    \/ \E r \in Requests : get_url_status(r)
    \/ \E r \in Requests : get_all_status(r)
    \/ \E r \in Requests : queue_info(r)
    \/ \E r \in Requests : root(r)
    \/ \E w \in Workers : main(w)
    \/ \E w \in Workers : WorkerCrash(w)
    \/ RedisDown
    \/ RedisUp
    \/ DbDown
    \/ DbUp

Spec == Init /\ [][Next]_vars

\* The deployment in which nothing fails around the program: the stores stay
\* reachable and the workers are not killed. The steps of main() left are the
\* ones that need no outage
InitLive == Init /\ hazard = "none"

loop(w) == \/ WorkerDequeue(w)
           \/ WorkerProcessing(w)
           \/ WorkerProcessUrl(w)
           \/ WorkerCompleted(w)
           \/ WorkerFailed(w)

NextLive ==
    \/ ingest_url
    \/ \E r \in Requests : query(r)
    \/ \E r \in Requests : get_url_status(r)
    \/ \E r \in Requests : get_all_status(r)
    \/ \E r \in Requests : queue_info(r)
    \/ \E r \in Requests : root(r)
    \/ \E w \in Workers : loop(w)

\* a handler that has started runs to its end, and while True keeps every
\* worker process going; whether requests arrive is up to the clients
Fairness ==
    /\ \A r \in Requests : WF_vars(IngestAddUrl(r)) /\ WF_vars(IngestEnqueue(r))
    /\ \A w \in Workers : WF_vars(loop(w))

SpecLive == InitLive /\ [][NextLive]_vars /\ Fairness

\* One worker, with a store that can become unreachable and reachable again;
\* the worker is not killed. The requests are submissions: the read handlers
\* write nothing the worker reads
InitRecover == Init /\ deployed = {"w1"} /\ hazard \in {"redis", "db"}

NextRecover ==
    \/ ingest_url
    \/ \E w \in Workers : main(w)
    \/ RedisDown
    \/ RedisUp
    \/ DbDown
    \/ DbUp

\* a handler that has started runs to its end and while True keeps the worker
\* going; when the stores fail and recover is up to the environment
FairnessRecover ==
    /\ \A r \in Requests : WF_vars(IngestAddUrl(r)) /\ WF_vars(IngestEnqueue(r))
    /\ \A w \in Workers : WF_vars(main(w))

SpecRecover == InitRecover /\ [][NextRecover]_vars /\ FairnessRecover

\* WebScraper.chunk_text called on its own, on a text of chunker.text words
ChunkText ==
    /\ ~chunker.called
    /\ chunker' =
        [chunker EXCEPT
            !.called = TRUE,
            !.raised = chunk_text_raises(chunker.text, chunker.chunk_size,
                                         chunker.overlap),
            !.chunks = IF chunk_text_raises(chunker.text, chunker.chunk_size,
                                            chunker.overlap)
                       THEN << >>
                       ELSE chunk_text(chunker.text, chunker.chunk_size,
                                       chunker.overlap)]
    /\ UNCHANGED <<dbVars, queue, envVars, collection, reqVars, workerVars,
                   enqLog, deqLog>>

\* the calls tried: every small text with every small pair of parameters, and
\* the default parameters on the texts of the pages and on texts that end
\* just after, and well after, the second chunk begins
SmallCalls ==
    [text : 0..MaxWords, chunk_size : 1..MaxChunkSize,
     overlap : 0..MaxOverlap, called : {FALSE}, raised : {FALSE},
     chunks : {<< >>}]

DefaultCalls ==
    [text : {WordCount[ver] : ver \in Versions}
            \cup {CHUNK_SIZE - OVERLAP + 1, 2 * CHUNK_SIZE},
     chunk_size : {CHUNK_SIZE}, overlap : {OVERLAP}, called : {FALSE},
     raised : {FALSE}, chunks : {<< >>}]

InitChunk ==
    /\ Started /\ deployed = {"w1"} /\ hazard = "none"
    /\ chunker \in SmallCalls \cup DefaultCalls

NextChunk == ChunkText

SpecChunk == InitChunk /\ [][NextChunk]_vars

\* ================================================================= claims
Accepted(r) == rresp[r].op = "ingest_url" /\ rresp[r].code = 202

\* C1: after any sequence of submissions, concurrent ones included, the
\* table holds one row per submitted url that reached add_url, rows of
\* different urls have different ids, and every submission of a url (answered
\* 202, or holding its job_id before the enqueue) has the id of the url's row,
\* hence the id the first submission got.
C1_OneRecordSameJobId ==
    /\ DOMAIN urls \subseteq submitted
    /\ \A u1, u2 \in DOMAIN urls : u1 # u2 => urls[u1].id # urls[u2].id
    /\ \A u \in DOMAIN urls : urls[u].url = u
    /\ \A r \in Requests :
        /\ Accepted(r) => /\ rresp[r].url \in DOMAIN urls
                          /\ rresp[r].job_id = urls[rresp[r].url].id
        /\ rpc[r] = "enqueue" => /\ rurl[r] \in DOMAIN urls
                                 /\ rjob[r] = urls[rurl[r]].id

\* two submissions of one url were both accepted
C1_Witness ==
    \E r1, r2 \in Requests :
        /\ r1 # r2 /\ Accepted(r1) /\ Accepted(r2)
        /\ rresp[r1].url = rresp[r2].url

\* request r is a re-submission about to enqueue: an earlier submission of its
\* url was accepted already
Resubmission(r) ==
    /\ rpc[r] = "enqueue"
    /\ \E r2 \in Requests : Accepted(r2) /\ rresp[r2].url = rurl[r]

\* C2 as claimed: a re-submission of a url that has a row leaves the queue
\* length as it was.
C2_NoReenqueue ==
    [][\A r \in Requests :
        Resubmission(r) /\ rpc'[r] = "done" => Len(queue') = Len(queue)]_vars

\* C2 amended: a re-submission of a url that has a row creates no row and
\* returns the row's id, and when Redis answers it appends one more job for
\* the url at the tail of the queue.
C2_ResubmissionEnqueues ==
    [][\A r \in Requests :
        /\ rpc[r] = "add_url" /\ rpc'[r] = "enqueue" /\ rurl[r] \in DOMAIN urls
           => urls' = urls /\ rjob'[r] = urls[rurl[r]].id
        /\ Resubmission(r) /\ rpc'[r] = "done" /\ redisUp
           => /\ queue' = Append(queue, [url |-> rurl[r]])
              /\ urls' = urls
              /\ rresp'[r].code = 202 /\ rresp'[r].job_id = urls[rurl[r]].id
      ]_vars

\* a re-submission was accepted while the first job of its url was still queued
C2_Witness ==
    \E r1, r2 \in Requests :
        /\ r1 # r2 /\ Accepted(r1) /\ Accepted(r2)
        /\ rresp[r1].url = rresp[r2].url
        /\ Len(queue) = 2

\* a row as the claims read it
Consistent(row) ==
    /\ row.error_message # None => row.status = "failed"
    /\ row.status = "failed" => row.error_message # None

\* the rows GET /status/{url} has returned
Observed ==
    {rresp[r].body : r \in {q \in Requests : /\ rresp[q].op = "get_url_status"
                                             /\ rresp[q].code = 200}}

\* C4: in every state every row has an error_message exactly when its status
\* is failed (so a row written processing or completed by a later run has
\* none), and every row a reader was given has it too: status and
\* error_message change in one write.
C4_ErrorIffFailed ==
    /\ \A u \in DOMAIN urls : Consistent(urls[u])
    /\ \A row \in Observed : Consistent(row)

\* a reader was given the row of a url whose fetch failed, with its message
C4_Witness ==
    \E row \in Observed :
        row.status = "failed" /\ row.error_message = FETCH_ERROR

\* the worker that writes url u's row completed in this step
CompletedBy(w, u) ==
    /\ wpc[w] = "completed" /\ wpc'[w] = "dequeue" /\ wjob[w].url = u

\* C5: chunks_count is 0 in every row that is pending, processing or failed,
\* also when the url was completed before; and a row that is written
\* completed gets the number of chunks of the run that writes it.
C5_ChunksCount ==
    /\ [](\A u \in DOMAIN urls :
            urls[u].status # "completed" => urls[u].chunks_count = 0)
    /\ [][\A u \in DOMAIN urls :
            urls'[u] # urls[u] /\ urls'[u].status = "completed"
            => \E w \in Workers : /\ CompletedBy(w, u)
                                  /\ urls'[u].chunks_count = Len(wchunks[w])
         ]_vars

\* a url that was completed with two chunks is being processed again
C5_Witness ==
    \E u \in DOMAIN urls :
        /\ urls[u].status = "processing" /\ urls[u].chunks_count = 0
        /\ <<u, 1>> \in DOMAIN collection
        /\ urls[u].updated_at = 4

\* C6: a step of the front door (a submission, also of a url that has a row,
\* a query, a status or queue-info read) leaves every existing row as it is,
\* and no step removes a row: rows change in the worker's steps only.
C6_FrontDoorFrame ==
    [][/\ DOMAIN urls \subseteq DOMAIN urls'
       /\ rpc' # rpc => \A u \in DOMAIN urls : urls'[u] = urls[u]
       /\ \A u \in DOMAIN urls :
            urls'[u] # urls[u]
            => \E w \in Workers : /\ wpc[w] \in {"processing", "completed", "failed"}
                                  /\ wpc'[w] # wpc[w]
                                  /\ wjob[w].url = u
      ]_vars

\* add_url has run for a url whose row the worker had completed before, and
\* the row is as the worker left it
C6_Witness ==
    \E r \in Requests :
        /\ rpc[r] = "enqueue" /\ urls[rurl[r]].status = "completed"
        /\ urls[rurl[r]].chunks_count = 2

\* the urls of the jobs in the queue, head first
QueueUrls == [k \in 1..Len(queue) |-> queue[k].url]

\* number of occurrences of url u in a sequence of urls
Count(log, u) == Cardinality({k \in 1..Len(log) : log[k] = u})

SingleWorker == Cardinality(deployed) = 1

\* C7: the queue is FIFO: the urls dequeued so far followed by the urls still
\* queued are the urls in the order they were enqueued; and with a single
\* worker every write of processing is for the job dequeued last, so rows
\* are moved to processing in the order of the enqueues.
C7_Fifo ==
    /\ [](enqLog = deqLog \o QueueUrls)
    /\ [][SingleWorker =>
            \A u \in DOMAIN urls :
                urls'[u] # urls[u] /\ urls'[u].status = "processing"
                => /\ deqLog # << >> /\ u = deqLog[Len(deqLog)]
                   /\ deqLog' = deqLog
         ]_vars

\* a single worker took two jobs of different urls and is processing the
\* second one, the first one done
C7_Witness ==
    /\ SingleWorker
    /\ Len(deqLog) = 2 /\ deqLog[1] # deqLog[2] /\ enqLog = deqLog
    /\ urls[deqLog[2]].status = "processing"
    /\ urls[deqLog[1]].status \in {"completed", "failed"}

\* the jobs the workers hold: dequeued and not yet finished
InHand(u) ==
    Cardinality({w \in Workers : /\ wpc[w] \in {"processing", "process_url",
                                                "completed", "failed"}
                                 /\ wjob[w].url = u})

\* C8: delivery is at most once and nothing is retried: for every url the jobs
\* dequeued plus the jobs still queued are the jobs the submissions enqueued,
\* the workers hold no more jobs of it than were dequeued, and a step that is
\* not a submission's never adds a job to the queue.
C8_AtMostOnce ==
    /\ [](\A u \in Urls :
            /\ Count(deqLog, u) + Count(QueueUrls, u) = Count(enqLog, u)
            /\ InHand(u) <= Count(deqLog, u))
    /\ [][/\ rpc' = rpc => Len(queue') <= Len(queue) /\ enqLog' = enqLog
          /\ deqLog' # deqLog => Len(queue') = Len(queue) - 1
         ]_vars

\* run with two workers: the only job of a url failed, the queue is empty and
\* both workers poll it
C8_Witness ==
    \E u \in DOMAIN urls :
        /\ deployed = Workers
        /\ urls[u].status = "failed" /\ Count(enqLog, u) = 1
        /\ queue = << >> /\ \A w \in Workers : wpc[w] = "dequeue"

\* worker w stores the chunks of a url that has chunks in the collection
Reingests(w) ==
    /\ wpc[w] = "process_url" /\ wpc'[w] \in {"completed", "failed"}
    /\ <<wjob[w].url, 0>> \in DOMAIN collection

\* number of chunks the collection holds for url u under ids u_0, u_1, ...
Stored(coll, u) == Cardinality({id \in DOMAIN coll : id[1] = u})

\* C9 as claimed: processing a job of a url that was ingested before does
\* not fail in add_documents, and when the new run has at least as many chunks
\* as are stored, the ids url_0 .. url_(n-1) hold the new run's chunks.
C9_Supersede ==
    [][\A w \in Workers :
        Reingests(w)
        => /\ werr'[w] # ADD_ERROR
           /\ wpc'[w] = "completed"
              /\ Len(wchunks'[w]) >= Stored(collection, wjob[w].url)
              => \A k \in 1..Len(wchunks'[w]) :
                    collection'[<<wjob[w].url, k - 1>>].content = wchunks'[w][k]
      ]_vars

\* C10: a submission that arrives while Redis is unreachable is answered 503
\* in that step and changes no row, no job and no chunk; and no other step
\* answers 503.
C10_Unavailable ==
    [][\A r \in Requests :
        /\ /\ rpc[r] = "new" /\ ~redisUp
           /\ rpc'[r] = "add_url" \/ rresp'[r].op = "ingest_url"
           => /\ rpc'[r] = "done" /\ rresp'[r].code = 503
              /\ UNCHANGED <<urls, sqlite_seq, queue, collection, enqLog>>
        /\ rresp'[r] # rresp[r] /\ rresp'[r].code = 503
           => /\ rpc[r] = "new" /\ ~redisUp
              /\ UNCHANGED <<urls, sqlite_seq, queue, collection, enqLog>>
      ]_vars

\* a submission of a url that has a row was answered 503
C10_Witness ==
    \E r \in Requests :
        /\ rresp[r].op = "ingest_url" /\ rresp[r].code = 503
        /\ rresp[r].url \in DOMAIN urls

Terminal(u) == u \in DOMAIN urls /\ urls[u].status \in {"completed", "failed"}

\* worker w holds the outcome of a run: add_documents returned, or the per-job
\* try block raised
Finishing(w) == wpc[w] \in {"completed", "failed"}

\* C3: while the workers keep running and the stores stay reachable, every
\* submitted url gets a terminal outcome: a row that is pending or processing
\* is eventually completed or failed, and a worker that holds the outcome of a
\* run eventually writes it; the write of a run whose fetch, chunking and
\* storing succeeded leaves the row completed with chunks_count the number of
\* chunks produced, the write of a run whose fetch failed leaves it failed
\* with a non-empty message.
C3_TerminalOutcome ==
    /\ \A u \in Urls :
        (u \in DOMAIN urls /\ urls[u].status \in {"pending", "processing"})
        ~> Terminal(u)
    /\ \A w \in Workers : Finishing(w) ~> ~Finishing(w)
    /\ [][\A w \in Workers :
            /\ wpc[w] = "completed" /\ wpc'[w] # "completed"
               => /\ urls'[wjob[w].url].status = "completed"
                  /\ urls'[wjob[w].url].chunks_count = Len(wchunks[w])
            /\ wpc[w] = "failed" /\ werr[w] = FETCH_ERROR /\ wpc'[w] # "failed"
               => /\ urls'[wjob[w].url].status = "failed"
                  /\ urls'[wjob[w].url].error_message \notin {None, ""}
         ]_vars

\* nothing failed around the program, and of two urls submitted one is
\* completed with its two chunks and the fetch of the other failed
C3_Witness ==
    /\ hazard = "none" /\ queue = << >>
    /\ \E u, v \in DOMAIN urls :
        /\ urls[u].status = "completed" /\ urls[u].chunks_count = 2
        /\ urls[v].status = "failed" /\ urls[v].error_message = FETCH_ERROR

\* request r is answered by POST /query in this step
Queried(r) == rresp'[r] # rresp[r] /\ rresp'[r].op = "query"

\* no row has been completed so far: a row is written completed at its third
\* write at the earliest (INSERT, processing, completed), and any later write
\* moves updated_at past 3
NoneCompletedYet ==
    \A u \in DOMAIN urls :
        urls[u].status # "completed" /\ urls[u].updated_at <= 3

\* C11 as claimed: a query handled while no row has reached completed is
\* answered 404, whatever the worker has done so far.
C11_NoAnswerBeforeCompleted ==
    [][\A r \in Requests :
        Queried(r) /\ NoneCompletedYet /\ hazard = "none"
        => rresp'[r].code = 404
      ]_vars

C13_AnswerSet ==
    [][\A r \in Requests :
        Queried(r) /\ DOMAIN collection # {}
        => /\ rresp'[r].code = 200
           /\ rresp'[r].answer # None
      ]_vars

\* chunk_text was called with 0 <= overlap < chunk_size
ValidCall == chunker.called /\ chunker.overlap < chunker.chunk_size

\* the word positions lo..hi-1 of a chunk
Positions(c) == c.lo..(c.hi - 1)

\* C14: for 0 <= overlap < chunk_size chunk_text raises nothing and returns
\* chunks that are word ranges of the text, later chunks starting later, each
\* of at least one and at most chunk_size words, and every word position
\* 0..N-1 lies in some chunk; for N = 0 the result is empty.
C14_Coverage ==
    ValidCall
    => LET cs == chunker.chunks
           n == chunker.text
       IN  /\ ~chunker.raised
           /\ \A k \in DOMAIN cs :
                /\ 0 <= cs[k].lo /\ cs[k].lo < cs[k].hi /\ cs[k].hi <= n
                /\ cs[k].hi - cs[k].lo <= chunker.chunk_size
                /\ k > 1 => cs[k - 1].lo < cs[k].lo
           /\ \A p \in 0..n - 1 : \E k \in DOMAIN cs : p \in Positions(cs[k])
           /\ n = 0 => cs = << >>

\* the default parameters on a text of twice chunk_size words: three chunks,
\* the last one cut short by the end of the text
C14_Witness ==
    /\ ValidCall /\ chunker.chunk_size = CHUNK_SIZE /\ chunker.overlap = OVERLAP
    /\ chunker.text = 2 * CHUNK_SIZE /\ Len(chunker.chunks) = 3
    /\ chunker.chunks[3].hi - chunker.chunks[3].lo < CHUNK_SIZE

\* C15 as claimed: a call with overlap >= chunk_size raises.
C15_Rejected ==
    chunker.called /\ chunker.overlap >= chunker.chunk_size => chunker.raised

\* the last (First: the first) o words of a chunk, as word positions
LastWords(c, o) == {p \in Positions(c) : p >= c.hi - o}
FirstWords(c, o) == {p \in Positions(c) : p < c.lo + o}

\* C19 as claimed: chunk k (counted from 0) starts at word
\* k * (chunk_size - overlap), and the last overlap words of every chunk are
\* the first overlap words of the chunk after it.
C19_OverlapEveryPair ==
    ValidCall
    => LET cs == chunker.chunks
       IN  /\ \A k \in DOMAIN cs :
                cs[k].lo = (k - 1) * (chunker.chunk_size - chunker.overlap)
           /\ \A k \in DOMAIN cs :
                k > 1 => LastWords(cs[k - 1], chunker.overlap)
                         = FirstWords(cs[k], chunker.overlap)

\* C19: chunk k (counted from 0) starts at word k * (chunk_size - overlap),
\* and the last overlap words of every chunk of chunk_size words are the
\* first overlap words of the chunk after it.
C19_OverlapFullChunks ==
    ValidCall
    => LET cs == chunker.chunks
       IN  /\ \A k \in DOMAIN cs :
                cs[k].lo = (k - 1) * (chunker.chunk_size - chunker.overlap)
           /\ \A k \in DOMAIN cs :
                k > 1 /\ cs[k - 1].hi - cs[k - 1].lo = chunker.chunk_size
                => LastWords(cs[k - 1], chunker.overlap)
                   = FirstWords(cs[k], chunker.overlap)

\* five words in chunks of four with two words of overlap: the second chunk
\* is cut short by the end of the text and a third chunk follows it
C19_Witness ==
    /\ ValidCall /\ chunker.text = 5 /\ chunker.chunk_size = 4
    /\ chunker.overlap = 2 /\ Len(chunker.chunks) = 3
    /\ chunker.chunks[2] = [lo |-> 2, hi |-> 5]

\* worker w is between queue.dequeue() returning a job and the end of the
\* terminal write for it
HoldsJob(w) == wpc[w] \in {"processing", "process_url", "completed", "failed"}

\* worker w dies in this step
Crashes(w) == wpc[w] # "crashed" /\ wpc'[w] = "crashed"

\* C16 as claimed: when the only worker dies holding a job, the row of the
\* job's url has status processing.
C16_StuckProcessing ==
    [][\A w \in Workers :
        Crashes(w) /\ HoldsJob(w) /\ SingleWorker
        => urls'[wjob[w].url].status = "processing"
      ]_vars

\* C16: a worker that dies holding a job loses it: the job is not put back
\* into the queue and the rows stay as they are. With a single worker the row
\* of the job's url is processing exactly when the worker had passed its
\* processing write, and no row changes any more; in general a row changes
\* only by the write of a running worker for a job of that url it dequeued.
C16_CrashLosesJob ==
    [][/\ \A w \in Workers :
            Crashes(w) /\ HoldsJob(w)
            => /\ UNCHANGED <<queue, enqLog, urls, collection>>
               /\ SingleWorker
                  => (urls[wjob[w].url].status = "processing"
                      <=> wpc[w] # "processing")
       /\ SingleWorker /\ (\E w \in deployed : wpc[w] = "crashed")
          => \A u \in DOMAIN urls : urls'[u] = urls[u]
       /\ \A u \in DOMAIN urls :
            urls'[u] # urls[u]
            => \E w \in deployed :
                /\ wpc[w] \in {"processing", "completed", "failed"}
                /\ wjob[w].url = u
                /\ wpc'[w] \notin {wpc[w], "crashed"}
      ]_vars

\* both workers died holding a job: one after its processing write, the
\* other before it; the queue is empty, one row is stuck in processing and
\* the other in pending
C16_Witness ==
    /\ \A w \in Workers : wpc[w] = "crashed"
    /\ queue = << >> /\ Len(deqLog) = 2 /\ deqLog[1] # deqLog[2]
    /\ \E u, v \in DOMAIN urls :
        urls[u].status = "processing" /\ urls[v].status = "pending"

\* the transitions of the lifecycle state machine
Legal ==
    {<<"pending", "processing">>, <<"processing", "completed">>,
     <<"processing", "failed">>, <<"failed", "processing">>,
     <<"completed", "processing">>}

\* C17 as claimed: with a single worker every change of a row's status is a
\* legal transition, and a row is written completed or failed only when it is
\* processing.
C17_LegalTransitions ==
    [][SingleWorker
       => \A u \in DOMAIN urls :
            /\ urls'[u].status # urls[u].status
               => <<urls[u].status, urls'[u].status>> \in Legal
            /\ urls'[u] # urls[u] /\ urls'[u].status \in {"completed", "failed"}
               => urls[u].status = "processing"
      ]_vars

\* worker w has written processing for its job and not yet a terminal status
MidRun(w, u) ==
    wpc[w] \in {"process_url", "completed", "failed"} /\ wjob[w].url = u

StoresUp == redisUp /\ dbUp

\* the loop goes on after every exception: an error of the dequeue, or of the
\* failed write in the except branch, takes the worker to the back-off and
\* changes nothing else, and from the back-off, as from every step of a job,
\* the worker comes to its next dequeue
LoopSurvives ==
    /\ [][\A w \in Workers :
            /\ wpc[w] = "dequeue" /\ ~redisUp /\ wpc'[w] # wpc[w]
               => wpc'[w] = "backoff" /\ UNCHANGED <<queue, urls, collection>>
            /\ wpc[w] = "failed" /\ ~dbUp /\ wpc'[w] # wpc[w]
               => wpc'[w] = "backoff" /\ UNCHANGED <<queue, urls, collection>>
         ]_vars
    /\ \A w \in Workers :
            wpc[w] \notin {"dequeue", "off"} ~> wpc[w] = "dequeue"

\* once the stores stay reachable the queue is drained
QueueDrained == queue # << >> ~> queue = << >>

\* C20 as claimed: the loop survives, and once the fault has cleared the queue
\* is drained and no row stays in processing forever.
C20_NoRowLeftProcessing ==
    /\ LoopSurvives
    /\ <>[]StoresUp
       => /\ QueueDrained
          /\ \A u \in Urls :
                (u \in DOMAIN urls /\ urls[u].status = "processing")
                ~> (u \in DOMAIN urls /\ urls[u].status # "processing")

\* C20: the loop survives every exception of the dequeue and of the failure
\* handler by backing off, and once the fault has cleared every job in the
\* queue is dequeued and brought to its end. (The job whose failed write
\* raised is dropped with its row as it was.)
C20_LoopSurvives ==
    /\ LoopSurvives
    /\ <>[]StoresUp => QueueDrained

\* the database is back, the worker polls an empty queue, and the row of the
\* job whose failure handler raised is still processing
C20_Witness ==
    \E u \in DOMAIN urls :
        /\ hazard = "db" /\ dbUp /\ wpc["w1"] = "dequeue" /\ queue = << >>
        /\ urls[u].status = "processing"
        /\ \A r \in Requests : rpc[r] \in {"new", "done"}

\* work is queued for url u: a job of it is in the queue, or a worker has
\* dequeued one and not yet written processing, or the handler that created
\* the row is about to call enqueue
WorkQueued(u) ==
    \/ Count(QueueUrls, u) > 0
    \/ \E w \in Workers : wpc[w] = "processing" /\ wjob[w].url = u
    \/ \E r \in Requests : rpc[r] = "enqueue" /\ rurl[r] = u

\* C21 as claimed: as long as no process is killed, every row with status
\* pending has work queued for its url, also when Redis becomes unreachable
\* between the handler's is_connected check and its enqueue call.
C21_PendingHasJob ==
    hazard # "crash"
    => \A u \in DOMAIN urls : urls[u].status = "pending" => WorkQueued(u)

====
